---- MODULE Spec2Model ----
(***************************************************************************)
(* A model of budilnik: a terminal dashboard that calls an HTTP endpoint   *)
(* on a schedule.  The state is the shared App record (src/app.rs), the    *)
(* mpsc event channel, and the position of each task of src/main.rs: the   *)
(* main task (startup, then the draw/recv loop), the crossterm listener,   *)
(* the ticker, and one invoker task per ApiCallTriggered event             *)
(* (src/http.rs).  An action is one critical section of the Mutex<App>, or *)
(* one channel send.  Strings are modelled by tags, durations and instants *)
(* by whole seconds.                                                       *)
(***************************************************************************)
EXTENDS Integers, Sequences, FiniteSets, Bags, TLC

\* ---------------------------------------------------------------- bounds
\* The environment acts at most this many times: a wake-up of the ticker's
\* sleep and a key press of the operator each count as one input.
MaxInputs == 2
\* The wake-ups of the ticker in the runs without an operator (CountdownSpec).
MaxCountdownTicks == 6
\* The wake-ups of the ticker in the runs of IntervalSpec: with a countdown of
\* several seconds, and with one of 0 s, where every tick starts an invocation.
MaxIntervalTicks == 4
MaxZeroTicks == 2
\* The entries appended to an empty log in the runs of the log alone (LogSpec).
MaxAppends == 300

\* ------------------------------------------------------ program constants
ChanCap == 100      \* mpsc::channel(100)
MaxLogs == 256      \* App.max_logs
SecondsPerDay == 86400
SecondsPerHour == 3600
SecondsPerMinute == 60
HoursPerDay == 24
LayoutFixedRows == 12   \* margin(1) twice plus Length(3), Length(4), Length(3)
LogBorderRows == 2

\* ------------------------------------------------------------ input sets
Keys == {"q", "Up", "Down", "Home", "End", "Other"}
Heights == {2, 15}
StartTimes == {0, SecondsPerDay - 1}
\* seconds between two clock readings of the ticker: sleep(1 s), or a long stall
Elapsed == {1, SecondsPerDay}
\* config.json as read by Config::load_from_file; file_ok = FALSE stands for a
\* missing or unparsable file.
ConfigInputs ==
    { [file_ok |-> TRUE,  api |-> "url", on_time |-> FALSE, h |-> 0,  m |-> 0, s |-> 0],
      [file_ok |-> TRUE,  api |-> "url", on_time |-> FALSE, h |-> 0,  m |-> 0, s |-> 3],
      [file_ok |-> TRUE,  api |-> "url", on_time |-> TRUE,  h |-> 0,  m |-> 0, s |-> 0],
      [file_ok |-> TRUE,  api |-> "url", on_time |-> TRUE,  h |-> 24, m |-> 0, s |-> 0],
      [file_ok |-> TRUE,  api |-> "",    on_time |-> FALSE, h |-> 0,  m |-> 0, s |-> 3],
      [file_ok |-> FALSE, api |-> "url", on_time |-> FALSE, h |-> 0,  m |-> 0, s |-> 3] }
\* the time triples of the runs that stop after startup (ConfigSpec): values
\* around the limits of the validation
TimeFields == {0, 1, 59, 60, 61}
HourFields == {0, 1, 23, 24}
TimeConfigInputs ==
    [file_ok : {TRUE}, api : {"url"}, on_time : BOOLEAN,
     h : HourFields, m : TimeFields, s : TimeFields]
\* log messages of a non-first invocation (fetch_api_data, else branch): the
\* success path, and the failure paths, which differ in their text only
LaterOutcomes == {"saved", "call_failed"}

VARIABLES
    config,         \* config.json as Config::load_from_file finds it
    app,            \* the App record behind Arc<Mutex<App>>
    guard_owner,    \* the task holding a MutexGuard of the App, or "none"
    now,            \* the wall clock, seconds since midnight of day 0
    term_height,    \* terminal.size().height
    pc_main,        \* position of the main task
    should_trigger_initial_api_call,
    chan,           \* the mpsc channel, a FIFO of events
    ticker_pc,      \* position of the ticker task
    ticks,          \* how often the ticker has woken
    keys_sent,      \* how many key events the listener has sent
    input_limit,    \* how many inputs the environment of this run delivers
    invokers,       \* bag of the spawned tasks running fetch_api_data
    first_result,   \* history: how the first invocation's HTTP call ended
    completed_handled, \* history: ApiCallCompleted events consumed
    cycle_tick,     \* history: countdown ticks evaluated since the last reset
    tick_fired      \* history: the last evaluated tick fired

vars == << config, app, guard_owner, now, term_height, pc_main, should_trigger_initial_api_call, chan,
           ticker_pc, ticks, keys_sent, input_limit, invokers, first_result,
           completed_handled, cycle_tick, tick_fired >>

Max(a, b) == IF a >= b THEN a ELSE b
Min(a, b) == IF a <= b THEN a ELSE b
\* usize::saturating_sub
SaturatingSub(a, b) == IF a >= b THEN a - b ELSE 0

\* --------------------------------------------------------- src/config.rs
\* mutant: minutes and seconds below 60 in both modes
load_from_file_strict(c) ==
    /\ c.file_ok
    /\ c.m < 60 /\ c.s < 60
    /\ c.on_time => c.h < HoursPerDay

\* Config::load_from_file: TRUE when it returns Ok(config)
load_from_file(c) ==
    /\ c.file_ok
    /\ IF c.on_time
       THEN c.h < HoursPerDay /\ c.m < 60 /\ c.s < 60
       ELSE /\ ~(~(c.h = 0 /\ c.m = 0) /\ c.s >= 60)
            /\ ~(~(c.h = 0 /\ c.s = 0) /\ c.m >= 60)

\* ------------------------------------------------------------ src/app.rs
App_new(mode, h, m, s, api_endpoint) ==
    [ current_time |-> -1,             \* String::new()
      running |-> TRUE,
      mode |-> mode,
      initial_h |-> h, initial_m |-> m, initial_s |-> s,
      error_message |-> "None",
      status_message |-> "None",
      api_endpoint |-> api_endpoint,
      next_trigger_time |-> -1,          \* None
      total_duration |-> h * SecondsPerHour + m * SecondsPerMinute + s,
      remaining_duration |-> h * SecondsPerHour + m * SecondsPerMinute + s,
      logs |-> << >>,
      log_scroll |-> 0,
      max_logs |-> MaxLogs,
      is_log_auto_scroll |-> TRUE,
      is_first_api_call |-> TRUE,
      today_json_dir |-> "None" ]

\* Local::now() formatted to the second
update_time(a, t) == [a EXCEPT !.current_time = t]

\* mutant: nothing evicted at capacity
add_log_no_eviction(a, log_entry) ==
    LET logs2 == Append(a.logs, log_entry)
    IN [a EXCEPT !.logs = logs2,
                 !.log_scroll = IF a.is_log_auto_scroll THEN Len(logs2) ELSE @]

add_log(a, log_entry) ==
    LET kept == IF Len(a.logs) = a.max_logs THEN Tail(a.logs) ELSE a.logs
        logs2 == Append(kept, log_entry)
    IN [a EXCEPT !.logs = logs2,
                 !.log_scroll = IF a.is_log_auto_scroll THEN Len(logs2) ELSE @]

\* mutant: the status message left in place
set_error_keeps_status(a, message) ==
    [add_log(a, "ERROR: " \o message) EXCEPT !.error_message = message]

set_error(a, message) ==
    [add_log(a, "ERROR: " \o message) EXCEPT !.error_message = message,
                                             !.status_message = "None"]

set_status_message(a, message) ==
    [add_log(a, message) EXCEPT !.status_message = message,
                                !.error_message = "None"]

\* NaiveTime::from_hms_opt(h, m, s), falling back to 00:00:00
target_time(a) ==
    IF a.initial_h < HoursPerDay /\ a.initial_m < 60 /\ a.initial_s < 60
    THEN a.initial_h * SecondsPerHour + a.initial_m * SecondsPerMinute + a.initial_s
    ELSE 0

\* mutant: the comparison of line 153 written < instead of <=
set_next_trigger_time_lt(a, t) ==
    LET today == (t \div SecondsPerDay) * SecondsPerDay + target_time(a)
    IN [a EXCEPT !.next_trigger_time =
                     IF today < t THEN today + SecondsPerDay ELSE today]

set_next_trigger_time(a, t) ==
    LET today == (t \div SecondsPerDay) * SecondsPerDay + target_time(a)
    IN [a EXCEPT !.next_trigger_time =
                     IF today <= t THEN today + SecondsPerDay ELSE today]

\* mutant: the reset forgotten
reset_timer_missing(a) == a

reset_timer(a) == [a EXCEPT !.remaining_duration = a.total_duration]

decrement_timer(a) ==
    [a EXCEPT !.remaining_duration = IF @ - 1 < 0 THEN 0 ELSE @ - 1]

handle_event(a, key, log_display_height) ==
    LET max_scroll_position == SaturatingSub(Len(a.logs), log_display_height)
        b == CASE key = "q"    -> [a EXCEPT !.running = FALSE]
               [] key = "Up"   -> [a EXCEPT !.log_scroll = SaturatingSub(@, 1),
                                            !.is_log_auto_scroll = FALSE]
               [] key = "Down" ->
                      IF a.log_scroll + 1 >= max_scroll_position
                      THEN [a EXCEPT !.is_log_auto_scroll = TRUE,
                                     !.log_scroll = max_scroll_position]
                      ELSE [a EXCEPT !.is_log_auto_scroll = FALSE,
                                     !.log_scroll = @ + 1]
               [] key = "Home" -> [a EXCEPT !.log_scroll = 0,
                                            !.is_log_auto_scroll = FALSE]
               [] key = "End"  -> [a EXCEPT !.log_scroll = max_scroll_position,
                                            !.is_log_auto_scroll = TRUE]
               [] OTHER        -> a
    IN [b EXCEPT !.log_scroll = Min(@, max_scroll_position)]

\* ------------------------------------------------------------- src/ui.rs
\* height of the log widget's text area for a terminal of the given height
display_height(height) ==
    SaturatingSub(SaturatingSub(height, LayoutFixedRows), LogBorderRows)

ui(a, height) ==
    LET max_scroll_position == SaturatingSub(Len(a.logs), display_height(height))
    IN [a EXCEPT !.log_scroll = IF a.is_log_auto_scroll
                                THEN max_scroll_position
                                ELSE Max(Min(@, max_scroll_position), 0)]

\* ----------------------------------------------------------- src/main.rs
Event(type, arg) == [type |-> type, arg |-> arg]

Invoker(is_first_call) == [is_first_call |-> is_first_call, pc |-> "call", msg |-> "None"]

\* The clock is read by set_next_trigger_time and the OnTimeMode branch only
\* (and for display): the countdown of ClockMode gets one reading per tick.
ClockReadings(a, one, many) == IF a.mode = "OnTimeMode" THEN many ELSE one

SchedulerEnabled(a) == a.api_endpoint # "" /\ a.today_json_dir # "None"

\* Mutex::lock returns at once only while no guard is alive
MutexFree == guard_owner = "none"

\* mutant: the guard kept alive beyond the critical section
drop_guard_leaked(task) == task

\* the holder of the mutex after the task's critical section: every guard is
\* a temporary or is dropped (by scope or by drop) before the next .await
drop_guard(task) == "none"

\* main, lines 63-84: the App built from the result of Config::load_from_file
InitialApp(c) ==
    IF load_from_file(c)
    THEN App_new(IF c.on_time THEN "OnTimeMode" ELSE "ClockMode", c.h, c.m, c.s, c.api)
    ELSE set_error(App_new("ClockMode", 0, 0, 0, ""), "config_load_failed")

Startup(configs, limit) ==
    /\ config \in configs
    /\ app = InitialApp(config)
    /\ guard_owner = "none"
    /\ input_limit = limit
    /\ now \in ClockReadings(app, {0}, StartTimes)
    /\ term_height \in Heights
    /\ pc_main = "dir_setup"
    /\ should_trigger_initial_api_call = FALSE
    /\ chan = << >>
    /\ ticker_pc = "sleep"
    /\ ticks = 0
    /\ keys_sent = 0
    /\ invokers = EmptyBag
    /\ first_result = "none"
    /\ completed_handled = 0
    /\ cycle_tick = 0
    /\ tick_fired = FALSE

Init == Startup(ConfigInputs, MaxInputs)

\* the tasks run from their spawn until main returns and the runtime is dropped
TasksRunning == pc_main \in {"draw", "recv"}

\* variables no action changes, and the history variables
fixedVars == << config, term_height, input_limit >>
tickHistory == << cycle_tick, tick_fired >>
outcomeHistory == << first_result, completed_handled >>

\* mutant: the initial call allowed whatever the directory setup returned
directory_setup_always_triggers(a, result) ==
    IF a.api_endpoint # ""
    THEN IF result = "Ok"
         THEN [app |-> set_status_message([a EXCEPT !.today_json_dir = "dir"], "dir_ready"),
               should_trigger |-> TRUE]
         ELSE [app |-> set_error(a, "dir_setup_failed"), should_trigger |-> TRUE]
    ELSE [app |-> set_error(a, "dir_setup_skipped"), should_trigger |-> FALSE]

\* main, lines 88-109; result is what DataManager::setup_directories returned
directory_setup(a, result) ==
    IF a.api_endpoint # ""
    THEN IF result = "Ok"
         THEN [app |-> set_status_message([a EXCEPT !.today_json_dir = "dir"], "dir_ready"),
               should_trigger |-> TRUE]
         ELSE [app |-> set_error(a, "dir_setup_failed"), should_trigger |-> FALSE]
    ELSE [app |-> set_error(a, "dir_setup_skipped"), should_trigger |-> FALSE]

DirectorySetup ==
    /\ pc_main = "dir_setup"
    /\ \E result \in {"Ok", "Err"} :
          LET r == directory_setup(app, result)
          IN /\ app' = r.app
             /\ should_trigger_initial_api_call' = r.should_trigger
    /\ pc_main' = "next_trigger"
    /\ MutexFree
    /\ guard_owner' = drop_guard("main")
    /\ UNCHANGED << now, chan, ticker_pc, ticks, keys_sent, invokers,
                    fixedVars, tickHistory, outcomeHistory >>

\* mutant: startup goes on without computing the first trigger time
InitNextTrigger_skipped ==
    /\ pc_main = "next_trigger"
    /\ pc_main' = "initial_trigger"
    /\ UNCHANGED << app, guard_owner, now, should_trigger_initial_api_call, chan,
                    ticker_pc, ticks, keys_sent, invokers, fixedVars, tickHistory,
                    outcomeHistory >>

\* main, lines 113-118
InitNextTrigger ==
    /\ pc_main = "next_trigger"
    /\ app' = IF SchedulerEnabled(app) /\ app.mode = "OnTimeMode"
              THEN set_next_trigger_time(app, now)
              ELSE app
    /\ pc_main' = "initial_trigger"
    /\ MutexFree
    /\ guard_owner' = drop_guard("main")
    /\ UNCHANGED << now, should_trigger_initial_api_call, chan, ticker_pc, ticks,
                    keys_sent, invokers, fixedVars, tickHistory, outcomeHistory >>

\* main, lines 127-147, after which the tasks are spawned (lines 153-233)
InitialTrigger ==
    /\ pc_main = "initial_trigger"
    /\ IF should_trigger_initial_api_call
       THEN /\ MutexFree
            /\ chan' = Append(chan, Event("ApiCallTriggered", app.is_first_api_call))
            /\ app' = set_status_message(app, "initial_trigger_sent")
            /\ guard_owner' = drop_guard("main")
       ELSE UNCHANGED << chan, app, guard_owner >>
    /\ pc_main' = "draw"
    /\ UNCHANGED << now, should_trigger_initial_api_call, ticker_pc, ticks,
                    keys_sent, invokers, fixedVars, tickHistory, outcomeHistory >>

\* crossterm listener task, lines 154-164: one key event is read and sent
InputListener ==
    /\ TasksRunning
    /\ Len(chan) < ChanCap
    /\ ticks + keys_sent < input_limit
    /\ keys_sent' = keys_sent + 1
    /\ \E key \in Keys : chan' = Append(chan, Event("Crossterm", key))
    /\ UNCHANGED guard_owner
    /\ UNCHANGED << app, now, pc_main, should_trigger_initial_api_call, ticker_pc,
                    ticks, invokers, fixedVars, tickHistory, outcomeHistory >>

\* ticker task, lines 185-197: the OnTimeMode branch at clock reading t;
\* fire says that params is Some
on_time_tick(a, t) ==
    IF a.next_trigger_time # -1 /\ t >= a.next_trigger_time
    THEN [app |-> set_next_trigger_time(set_status_message(a, "ontime_trigger"), t),
          fire |-> TRUE]
    ELSE [app |-> a, fire |-> FALSE]

\* mutant: the countdown compared with < 0 instead of <= 0
clock_tick_below_zero(a) ==
    LET b == decrement_timer(a)
    IN IF b.remaining_duration < 0
       THEN [app |-> reset_timer(set_status_message(b, "clock_trigger")), fire |-> TRUE]
       ELSE [app |-> b, fire |-> FALSE]

\* mutant: the ClockMode fire without its status message
clock_tick_silent(a) ==
    LET b == decrement_timer(a)
    IN IF b.remaining_duration <= 0
       THEN [app |-> reset_timer(b), fire |-> TRUE]
       ELSE [app |-> b, fire |-> FALSE]

\* mutant: the countdown tested before it is decremented
clock_tick_check_first(a) ==
    IF a.remaining_duration <= 0
    THEN [app |-> reset_timer(set_status_message(a, "clock_trigger")), fire |-> TRUE]
    ELSE [app |-> decrement_timer(a), fire |-> FALSE]

\* ticker task, lines 198-208: the ClockMode branch
clock_tick(a) ==
    LET b == decrement_timer(a)
    IN IF b.remaining_duration <= 0
       THEN [app |-> reset_timer(set_status_message(b, "clock_trigger")), fire |-> TRUE]
       ELSE [app |-> b, fire |-> FALSE]

\* mutant: the trigger evaluated while the first invocation is pending
ticker_critical_section_ignores_first(a0, t) ==
    LET a == update_time(a0, t)
    IN IF SchedulerEnabled(a)
       THEN LET r == IF a.mode = "OnTimeMode" THEN on_time_tick(a, t) ELSE clock_tick(a)
            IN [app |-> r.app, fire |-> r.fire, evaluated |-> TRUE]
       ELSE [app |-> a, fire |-> FALSE, evaluated |-> FALSE]

\* ticker task, lines 173-212: the critical section run at clock reading t;
\* evaluated says that a mode branch was taken
ticker_critical_section(a0, t) ==
    LET a == update_time(a0, t)
    IN IF SchedulerEnabled(a) /\ ~a.is_first_api_call
       THEN LET r == IF a.mode = "OnTimeMode" THEN on_time_tick(a, t) ELSE clock_tick(a)
            IN [app |-> r.app, fire |-> r.fire, evaluated |-> TRUE]
       ELSE [app |-> a, fire |-> FALSE, evaluated |-> FALSE]

\* ticker task, lines 171-212: the sleep ends and the critical section runs
TickerEvaluate ==
    /\ TasksRunning
    /\ ticker_pc = "sleep"
    /\ ticks + keys_sent < input_limit
    /\ \E d \in ClockReadings(app, {1}, Elapsed) :
          LET r == ticker_critical_section(app, now + d)
          IN /\ now' = now + d
             /\ app' = r.app
             /\ ticker_pc' = IF r.fire THEN "send_trigger" ELSE "send_tick"
             /\ tick_fired' = IF r.evaluated THEN r.fire ELSE tick_fired
             /\ cycle_tick' = IF r.evaluated /\ app.mode = "ClockMode"
                              THEN (IF tick_fired THEN 1 ELSE cycle_tick + 1)
                              ELSE cycle_tick
    /\ ticks' = ticks + 1
    /\ MutexFree
    /\ guard_owner' = drop_guard("ticker")
    /\ UNCHANGED << pc_main, should_trigger_initial_api_call, chan, keys_sent,
                    invokers, fixedVars, outcomeHistory >>

\* ticker task, lines 215-223
TickerSendTrigger ==
    /\ TasksRunning
    /\ ticker_pc = "send_trigger"
    /\ Len(chan) < ChanCap
    /\ chan' = Append(chan, Event("ApiCallTriggered", FALSE))
    /\ ticker_pc' = "send_tick"
    /\ UNCHANGED guard_owner
    /\ UNCHANGED << app, now, pc_main, should_trigger_initial_api_call, ticks,
                    keys_sent, invokers, fixedVars, tickHistory, outcomeHistory >>

\* ticker task, lines 226-228
TickerSendTick ==
    /\ TasksRunning
    /\ ticker_pc = "send_tick"
    /\ Len(chan) < ChanCap
    /\ chan' = Append(chan, Event("Tick", "None"))
    /\ ticker_pc' = "sleep"
    /\ UNCHANGED guard_owner
    /\ UNCHANGED << app, now, pc_main, should_trigger_initial_api_call, ticks,
                    keys_sent, invokers, fixedVars, tickHistory, outcomeHistory >>

\* main loop, lines 239-242
Draw ==
    /\ pc_main = "draw"
    /\ app' = ui(app, term_height)
    /\ pc_main' = "recv"
    /\ MutexFree
    /\ guard_owner' = drop_guard("main")
    /\ UNCHANGED << now, should_trigger_initial_api_call, chan, ticker_pc, ticks,
                    keys_sent, invokers, fixedVars, tickHistory, outcomeHistory >>

\* mutant: the quit key handled like any other key
apply_event_ignores_quit(a, event, height) ==
    CASE event.type = "Crossterm" ->
             handle_event(a, IF event.arg = "q" THEN "Other" ELSE event.arg, height)
      [] event.type = "ApiCallCompleted" -> add_log(a, event.arg)
      [] OTHER -> a

\* main loop, lines 249-286: the effect of one event on the App
apply_event(a, event, height) ==
    CASE event.type = "Crossterm" ->
             LET b == handle_event(a, event.arg, height)
             IN IF event.arg = "q" THEN [b EXCEPT !.running = FALSE] ELSE b
      [] event.type = "ApiCallCompleted" -> add_log(a, event.arg)
      [] OTHER -> a

\* mutant: a trigger dropped while an invoker task is still running
spawn_invoker_if_idle(invs, event) ==
    IF event.type = "ApiCallTriggered" /\ invs = EmptyBag
    THEN invs (+) SetToBag({Invoker(event.arg)})
    ELSE invs

\* main loop, lines 266-282: the invoker tasks after one event was handled
spawn_invoker(invs, event) ==
    IF event.type = "ApiCallTriggered"
    THEN invs (+) SetToBag({Invoker(event.arg)})
    ELSE invs

\* main loop, lines 245-291
Recv ==
    /\ pc_main = "recv"
    /\ chan # << >>
    /\ LET event == Head(chan)
           n == IF event.type = "ApiCallCompleted" THEN 1 ELSE 0
       IN /\ app' = apply_event(app, event, term_height)
          /\ invokers' = spawn_invoker(invokers, event)
          /\ completed_handled' = completed_handled + n
    /\ chan' = Tail(chan)
    /\ pc_main' = IF app'.running THEN "draw" ELSE "exit"
    /\ MutexFree
    /\ guard_owner' = drop_guard("main")
    /\ UNCHANGED << now, should_trigger_initial_api_call, ticker_pc, ticks,
                    keys_sent, first_result, fixedVars, tickHistory >>

\* ------------------------------------------------------------ src/http.rs
\* fetch_api_data, lines 24-41: the first call returned Ok(response) or Err(e)
first_call_returned(a, ok) ==
    IF ok
    THEN [app |-> set_status_message([a EXCEPT !.is_first_api_call = FALSE],
                                     "first_call_ok"),
          msg |-> "first_call_done"]
    ELSE [app |-> set_error(a, "first_call_failed"),
          msg |-> "first_call_failed"]

InvokerFirstReturn ==
    /\ TasksRunning
    /\ \E inv \in BagToSet(invokers) :
          /\ inv.pc = "call"
          /\ inv.is_first_call
          /\ \E ok \in BOOLEAN :
                LET r == first_call_returned(app, ok)
                IN /\ app' = r.app
                   /\ invokers' = (invokers (-) SetToBag({inv}))
                                  (+) SetToBag({[inv EXCEPT !.pc = "send", !.msg = r.msg]})
                   /\ first_result' = IF first_result = "none"
                                      THEN (IF ok THEN "ok" ELSE "err")
                                      ELSE first_result
    /\ MutexFree
    /\ guard_owner' = drop_guard("invoker")
    /\ UNCHANGED << now, pc_main, should_trigger_initial_api_call, chan, ticker_pc,
                    ticks, keys_sent, completed_handled, fixedVars, tickHistory >>

\* fetch_api_data, lines 42-75: a later call ended on one of its paths
InvokerLaterReturn ==
    /\ TasksRunning
    /\ \E inv \in BagToSet(invokers) :
          /\ inv.pc = "call"
          /\ ~inv.is_first_call
          /\ \E outcome \in LaterOutcomes :
                invokers' = (invokers (-) SetToBag({inv}))
                            (+) SetToBag({[inv EXCEPT !.pc = "send", !.msg = outcome]})
    /\ UNCHANGED guard_owner
    /\ UNCHANGED << app, now, pc_main, should_trigger_initial_api_call, chan,
                    ticker_pc, ticks, keys_sent, fixedVars, tickHistory,
                    outcomeHistory >>

\* mutant: the spawned task ends without sending its result
InvokerSend_drops_result ==
    /\ TasksRunning
    /\ \E inv \in BagToSet(invokers) :
          /\ inv.pc = "send"
          /\ invokers' = invokers (-) SetToBag({inv})
    /\ UNCHANGED guard_owner
    /\ UNCHANGED << app, now, pc_main, should_trigger_initial_api_call, chan,
                    ticker_pc, ticks, keys_sent, fixedVars, tickHistory,
                    outcomeHistory >>

\* main, lines 278-280: the spawned task sends its result and ends
InvokerSend ==
    /\ TasksRunning
    /\ Len(chan) < ChanCap
    /\ \E inv \in BagToSet(invokers) :
          /\ inv.pc = "send"
          /\ chan' = Append(chan, Event("ApiCallCompleted", inv.msg))
          /\ invokers' = invokers (-) SetToBag({inv})
    /\ UNCHANGED guard_owner
    /\ UNCHANGED << app, now, pc_main, should_trigger_initial_api_call, ticker_pc,
                    ticks, keys_sent, fixedVars, tickHistory, outcomeHistory >>

Next ==
    \/ DirectorySetup
    \/ InitNextTrigger
    \/ InitialTrigger
    \/ InputListener
    \/ TickerEvaluate
    \/ TickerSendTrigger
    \/ TickerSendTick
    \/ Draw
    \/ Recv
    \/ InvokerFirstReturn
    \/ InvokerLaterReturn
    \/ InvokerSend

Spec == Init /\ [][Next]_vars

\* The same program started with a countdown of several seconds and no
\* operator at the keyboard, followed over more ticks.
CountdownConfigs ==
    {c \in ConfigInputs : load_from_file(c) /\ ~c.on_time /\ c.api # "" /\ c.s > 0}

CountdownInit == Startup(CountdownConfigs, MaxCountdownTicks)

CountdownNext ==
    \/ DirectorySetup
    \/ InitNextTrigger
    \/ InitialTrigger
    \/ TickerEvaluate
    \/ TickerSendTrigger
    \/ TickerSendTick
    \/ Draw
    \/ Recv
    \/ InvokerFirstReturn
    \/ InvokerLaterReturn
    \/ InvokerSend

CountdownSpec == CountdownInit /\ [][CountdownNext]_vars

\* The countdown runs with a main loop that keeps running: the main task is
\* never suspended for good between a draw and the handling of the next
\* event (lines 237-291); an HTTP call may still never return.
FairCountdownSpec == CountdownSpec /\ WF_vars(Draw) /\ WF_vars(Recv)

\* Startup alone, for every time triple of TimeConfigInputs: the configuration
\* is loaded and validated, the App is built and the startup steps run.
ConfigInit == Startup(TimeConfigInputs, 0)

ConfigNext ==
    \/ DirectorySetup
    \/ InitNextTrigger
    \/ InitialTrigger

ConfigSpec == ConfigInit /\ [][ConfigNext]_vars

\* The same program started in ClockMode with a countdown of 0 s or of 3 s
\* and no operator at the keyboard.
ZeroConfigs ==
    {c \in ConfigInputs : load_from_file(c) /\ ~c.on_time /\ c.api # "" /\ c.s = 0}

IntervalInit ==
    \/ Startup(CountdownConfigs, MaxIntervalTicks)
    \/ Startup(ZeroConfigs, MaxZeroTicks)

IntervalSpec == IntervalInit /\ [][CountdownNext]_vars

\* The log alone: entries numbered 1, 2, 3, ... are appended to the empty log
\* of a freshly built App, up to and beyond its capacity.
LogConfigs == {c \in ConfigInputs : load_from_file(c) /\ c.api = ""}

LogInit == Startup(LogConfigs, 0)

\* the number of the entry appended last
LastAppended == IF app.logs = << >> THEN 0 ELSE app.logs[Len(app.logs)]

AppendLog ==
    /\ LastAppended < MaxAppends
    /\ app' = add_log(app, LastAppended + 1)
    /\ MutexFree
    /\ guard_owner' = drop_guard("main")
    /\ UNCHANGED << now, pc_main, should_trigger_initial_api_call, chan, ticker_pc,
                    ticks, keys_sent, invokers, fixedVars, tickHistory,
                    outcomeHistory >>

LogNext == AppendLog

LogSpec == LogInit /\ [][LogNext]_vars

\* ================================================================ claims
\* steps of the ticker and of the main loop, as seen from outside
TickStep == ticks' = ticks + 1
FireStep == TickStep /\ ticker_pc' = "send_trigger"
RecvStep(type) == pc_main = "recv" /\ pc_main' # "recv" /\ Head(chan).type = type
TriggerSent ==
    /\ Len(chan') = Len(chan) + 1
    /\ chan'[Len(chan')].type = "ApiCallTriggered"
\* an invoker task whose HTTP call has not returned
Calling(first) ==
    {inv \in BagToSet(invokers) : inv.pc = "call" /\ inv.is_first_call = first}
HungCall == Calling(TRUE) \cup Calling(FALSE) # {}
\* all invoker tasks spawned and not yet reported to the main loop
InFlight ==
    BagCardinality(invokers)
    + Cardinality({i \in 1..Len(chan) : chan[i].type = "ApiCallCompleted"})
\* the log entries that describe the outcome of an invocation
OutcomeEntries ==
    {"first_call_ok", "ERROR: first_call_failed", "first_call_done",
     "first_call_failed"} \cup LaterOutcomes
OutcomesInLog ==
    Cardinality({i \in 1..Len(app.logs) : app.logs[i] \in OutcomeEntries})
\* this tick ran the trigger of the configured mode: the countdown moved or
\* fired, the target instant was compared with the clock
TriggerEvaluated ==
    IF app.mode = "ClockMode"
    THEN /\ (ticker_pc' = "send_trigger") = (app.remaining_duration <= 1)
         /\ app'.remaining_duration = IF app.remaining_duration <= 1
                                      THEN app.total_duration
                                      ELSE app.remaining_duration - 1
    ELSE (ticker_pc' = "send_trigger") = (now' >= app.next_trigger_time)

\* C1: once the HTTP call of the first invocation has returned, with success
\* or with a transport error, the first-invocation flag is false.
C1_FlagFalseAfterFirstCompletion ==
    first_result # "none" => ~app.is_first_api_call

\* C2: every log entry describing an invocation outcome was appended by the
\* main loop's handling of ApiCallCompleted, one entry per consumed event.
C2_OneLogEntryPerOutcome == OutcomesInLog = completed_handled

\* C3: at most one invoker is in flight (spawned, and its ApiCallCompleted
\* not yet consumed) at any time.
C3_AtMostOneInFlight == InFlight <= 1

\* C4: an ApiCallTriggered event is sent, by startup or by the ticker, only
\* while the endpoint is non-empty and the output directory is present, and
\* the ticker decides to fire only then.
C4_NoTriggerWhileDisabled ==
    [][(TriggerSent \/ FireStep) => SchedulerEnabled(app)]_vars

\* C4 witness: a disabled scheduler (failed config load or failed directory
\* setup) whose ticker has woken, and nothing was triggered.
C4_Witness ==
    /\ ~SchedulerEnabled(app)
    /\ ticks >= 1
    /\ ticker_pc = "send_tick"
    /\ invokers = EmptyBag

\* C5: after a transport failure of the first invocation the scheduler keeps
\* running: every later tick of an enabled scheduler evaluates the trigger
\* (counts down, fires when due).
C5_FailureDoesNotStopScheduler ==
    [][TickStep /\ SchedulerEnabled(app) /\ first_result = "err"
         => TriggerEvaluated]_vars

\* C6 as stated: on every tick taken while some invoker's call hangs, with the
\* scheduler enabled, the trigger is evaluated.
C6_Original ==
    [][TickStep /\ SchedulerEnabled(app) /\ HungCall => TriggerEvaluated]_vars

\* C6 amended: while an invoker's call hangs and the first-invocation flag is
\* false, every tick evaluates the trigger, every ApiCallTriggered consumed
\* spawns one more invoker next to the hanging one, and the main loop still
\* consumes and applies key events.
C6_HungCallDoesNotBlock ==
    /\ [][TickStep /\ SchedulerEnabled(app) /\ HungCall /\ ~app.is_first_api_call
            => TriggerEvaluated]_vars
    /\ [][RecvStep("ApiCallTriggered") /\ HungCall
            => BagCardinality(invokers') = BagCardinality(invokers) + 1]_vars
    /\ [][RecvStep("Crossterm") /\ HungCall
            => /\ Head(chan).arg = "q" => pc_main' = "exit"
               /\ Head(chan).arg = "Home" => app'.log_scroll = 0
               /\ invokers' = invokers]_vars
    /\ [](HungCall /\ pc_main = "recv" /\ chan # << >> => ENABLED Recv)

\* C6 witness: two invokers of later invocations inside their calls at once.
C6_Witness ==
    \E inv \in Calling(FALSE) : CopiesIn(inv, invokers) >= 2

\* the scenario of C7: a 3 s countdown, of which cycle_tick ticks have run
Countdown3 == app.mode = "ClockMode" /\ app.total_duration = 3 /\ cycle_tick >= 1

\* C7 as stated: the first three ticks of a 3 s countdown do not fire.
C7_Original == Countdown3 /\ cycle_tick <= 3 => ~tick_fired

\* C7 amended: of a 3 s countdown the first two ticks do not fire and leave
\* 2 s and 1 s; the third tick fires and resets remaining_duration to 3 s.
C7_ThirdTickFires ==
    Countdown3 =>
        /\ cycle_tick <= 3
        /\ tick_fired = (cycle_tick = 3)
        /\ (ticker_pc = "send_trigger") => tick_fired
        /\ ticker_pc # "sleep" =>
               app.remaining_duration = IF tick_fired THEN 3 ELSE 3 - cycle_tick

\* C7 witness: the third tick has just fired.
C7_Witness ==
    /\ Countdown3
    /\ cycle_tick = 3
    /\ ticker_pc = "send_trigger"
    /\ app.remaining_duration = 3

\* C8: in ClockMode remaining_duration is never negative, does not increase
\* in a step that is no fire, and equals total_duration right after a fire.
C8_CountdownMonotone ==
    /\ [](app.mode = "ClockMode" => app.remaining_duration >= 0)
    /\ [][app.mode = "ClockMode" /\ ~FireStep
            => app'.remaining_duration <= app.remaining_duration]_vars
    /\ [][app.mode = "ClockMode" /\ FireStep
            => app'.remaining_duration = app.total_duration]_vars

\* C8 witness: the countdown runs again after a fire.
C8_Witness ==
    /\ app.mode = "ClockMode"
    /\ ticks >= 4
    /\ cycle_tick = 1
    /\ app.remaining_duration = app.total_duration - 1

C10_ScrollInRange ==
    /\ app.log_scroll >= 0
    /\ app.log_scroll <= SaturatingSub(Len(app.logs), display_height(term_height))

\* a step that appends an entry to the log (the log is below capacity)
AppendStep == Len(app'.logs) = Len(app.logs) + 1

\* C11: if auto-scroll is on before an append, then right after the append
\* log_scroll equals max(0, new_len - viewport height).
C11_AppendTracksTail ==
    [][AppendStep /\ app.is_log_auto_scroll
         => app'.log_scroll
              = SaturatingSub(Len(app'.logs), display_height(term_height))]_vars

\* C12: the log never holds more than 256 entries, and after n appends to an
\* empty log it holds the last min(n, 256) appended entries in append order.
C12_LogKeepsLastEntries ==
    LET len == Len(app.logs)
    IN /\ len <= MaxLogs
       /\ len = Min(LastAppended, MaxLogs)
       /\ \A i \in 1..len : app.logs[i] = LastAppended - len + i

\* C12 witness: 300 entries were appended; 256 are kept, entries 1..44 are
\* gone, entry 300 is the last.
C12_Witness ==
    /\ Len(app.logs) = 256
    /\ app.logs[1] = 45
    /\ app.logs[256] = 300

\* C13: at most one of status_message and error_message is set in every
\* state, and every step that sets one of them leaves the other cleared.
C13_StatusErrorExclusive ==
    /\ [](app.status_message = "None" \/ app.error_message = "None")
    /\ [][app'.error_message # app.error_message
            => app'.error_message # "None" /\ app'.status_message = "None"]_vars
    /\ [][app'.status_message # app.status_message /\ app'.status_message # "None"
            => app'.error_message = "None"]_vars

\* C13 witness: an error (the failed first call) has replaced the status
\* message that startup had set.
C13_Witness ==
    /\ app.error_message = "first_call_failed"
    /\ app.status_message = "None"
    /\ \E i \in 1..Len(app.logs) : app.logs[i] = "initial_trigger_sent"

\* the log entries written by set_error
ErrorEntries ==
    {"ERROR: config_load_failed", "ERROR: dir_setup_failed",
     "ERROR: dir_setup_skipped", "ERROR: first_call_failed"}
ErrorsInLog ==
    Cardinality({i \in 1..Len(app.logs) : app.logs[i] \in ErrorEntries})

\* C14: when loading or validating the configuration fails the endpoint is
\* empty, no invocation is ever triggered, and exactly one error message is
\* in the log, which is the error message shown.
C14_ConfigFailureDisables ==
    ~load_from_file(config) =>
        /\ app.api_endpoint = ""
        /\ ticker_pc # "send_trigger"
        /\ invokers = EmptyBag
        /\ \A i \in 1..Len(chan) : chan[i].type # "ApiCallTriggered"
        /\ ErrorsInLog = 1
        /\ app.error_message = "config_load_failed"

\* the messages an invoker of the first invocation returns
FirstMessages == {"first_call_done", "first_call_failed"}
\* the first invocations of the run, whatever stage they are in: triggered,
\* running, reported, or consumed by the main loop
FirstInvocations ==
    Cardinality({i \in 1..Len(chan) :
                    \/ chan[i].type = "ApiCallTriggered" /\ chan[i].arg = TRUE
                    \/ chan[i].type = "ApiCallCompleted" /\ chan[i].arg \in FirstMessages})
    + BagCardinality([inv \in {i \in BagToSet(invokers) : i.is_first_call}
                         |-> invokers[inv]])
    + Cardinality({i \in 1..Len(app.logs) : app.logs[i] \in FirstMessages})

\* C15: at most one ApiCallTriggered of a run carries is_first_call = true;
\* it is sent by startup after the directory setup succeeded; every trigger
\* sent by the ticker carries false, and the ticker sends none while the
\* first-invocation flag is true.
C15_OneFirstTrigger ==
    /\ [](FirstInvocations <= 1)
    /\ [](ticker_pc = "send_trigger" => ~app.is_first_api_call)
    /\ [][TriggerSent /\ chan'[Len(chan')].arg = TRUE
            => /\ pc_main = "initial_trigger"
               /\ should_trigger_initial_api_call
               /\ app.today_json_dir # "None"]_vars
    /\ [][TriggerSent /\ pc_main # "initial_trigger"
            => /\ ticker_pc = "send_trigger"
               /\ chan'[Len(chan')].arg = FALSE
               /\ ~app.is_first_api_call]_vars

\* C15 witness: the first invocation was consumed and the ticker has sent a
\* trigger with is_first_call = false.
C15_Witness ==
    /\ \E i \in 1..Len(app.logs) : app.logs[i] \in FirstMessages
    /\ \E i \in 1..Len(chan) :
          chan[i].type = "ApiCallTriggered" /\ chan[i].arg = FALSE

\* the ApiCallCompleted events waiting in the channel
CompletedQueued ==
    Cardinality({i \in 1..Len(chan) : chan[i].type = "ApiCallCompleted"})
InvokerCount == BagCardinality(invokers)

\* C16: every ApiCallTriggered consumed spawns exactly one invoker; an invoker
\* whose call returned, on any path, carries a message and sends exactly one
\* ApiCallCompleted as it ends, and nothing else sends one; while the main
\* loop runs an ApiCallCompleted is eventually consumed whenever one is
\* queued (the channel is first-in first-out, so each one is), and consuming
\* it appends its message to the log.
C16_OneCompletionPerInvoker ==
    /\ [][RecvStep("ApiCallTriggered") => InvokerCount' = InvokerCount + 1]_vars
    /\ [][~RecvStep("ApiCallTriggered") => InvokerCount' <= InvokerCount]_vars
    /\ [](\A inv \in BagToSet(invokers) : inv.pc = "send" => inv.msg # "None")
    /\ [][InvokerCount' < InvokerCount
            => /\ InvokerCount' = InvokerCount - 1
               /\ \E inv \in BagToSet(invokers) :
                     /\ inv.pc = "send"
                     /\ invokers' = invokers (-) SetToBag({inv})
                     /\ chan' = Append(chan, Event("ApiCallCompleted", inv.msg))]_vars
    /\ [][CompletedQueued' > CompletedQueued
            => InvokerCount' = InvokerCount - 1]_vars
    /\ [][RecvStep("ApiCallCompleted")
            => app'.logs = Append(app.logs, Head(chan).arg)]_vars
    /\ \A n \in 0..MaxCountdownTicks :
          (completed_handled = n /\ CompletedQueued > 0) ~> (completed_handled > n)

\* C16 witness: two invocations ran to their end and both results were
\* consumed; the last one appended is the result of a later invocation.
C16_Witness ==
    /\ completed_handled >= 2
    /\ app.logs[Len(app.logs)] \in LaterOutcomes
    /\ invokers = EmptyBag

\* the main loop handles a key event carrying this key
KeyStep(key) == RecvStep("Crossterm") /\ Head(chan).arg = key
\* the maximum scroll position: max(0, entries - rows of the log's text area)
MaxScroll(a) == SaturatingSub(Len(a.logs), display_height(term_height))
\* a render pass
DrawStep == pc_main = "draw" /\ pc_main' = "recv"

\* C17: a scroll-down key adds 1 to log_scroll; at or past the maximum scroll
\* position the result is clamped to the maximum and auto-scroll turns on,
\* otherwise auto-scroll turns off; with auto-scroll on, a render pass leaves
\* the last log entry inside the visible window.
C17_ScrollDown ==
    /\ [][KeyStep("Down")
            => IF app.log_scroll + 1 >= MaxScroll(app)
               THEN app'.log_scroll = MaxScroll(app) /\ app'.is_log_auto_scroll
               ELSE app'.log_scroll = app.log_scroll + 1
                    /\ ~app'.is_log_auto_scroll]_vars
    /\ [][DrawStep /\ app.is_log_auto_scroll /\ app.logs # << >>
              /\ display_height(term_height) > 0
            => /\ app'.log_scroll < Len(app'.logs)
               /\ app'.log_scroll + display_height(term_height)
                      >= Len(app'.logs)]_vars

\* the offset in the App is the one the last render pass showed
ScrollAsRendered == app.log_scroll = ui(app, term_height).log_scroll

\* C18: a scroll-up key lowers log_scroll by exactly 1 from the offset shown
\* by the last render, staying at 0 when it is 0, and turns auto-scroll off.
C18_ScrollUp ==
    [][KeyStep("Up") /\ ScrollAsRendered
         => /\ app'.log_scroll = SaturatingSub(app.log_scroll, 1)
            /\ ~app'.is_log_auto_scroll]_vars

\* C19: consuming the quit key sets running = false and ends the main loop in
\* that iteration; the invoker tasks are left as they are, and after the end
\* of the loop no queued event is taken or applied.
C19_QuitEndsLoop ==
    /\ [][KeyStep("q")
            => /\ ~app'.running
               /\ pc_main' = "exit"
               /\ chan' = Tail(chan)
               /\ invokers' = invokers]_vars
    /\ [](app.running = (pc_main # "exit"))
    /\ [][pc_main = "exit" => UNCHANGED << app, chan, pc_main >>]_vars

\* C19 witness: the loop has ended with an event still queued and an invoker
\* still inside its call.
C19_Witness ==
    /\ pc_main = "exit"
    /\ chan # << >>
    /\ HungCall

\* load_from_file returned Ok: the App was built from the configuration
\* (otherwise it is the default App with the load error as first log entry)
ConfigAccepted ==
    /\ app.mode = (IF config.on_time THEN "OnTimeMode" ELSE "ClockMode")
    /\ << app.initial_h, app.initial_m, app.initial_s >> = << config.h, config.m, config.s >>
    /\ app.api_endpoint = config.api
    /\ app.logs = << >> \/ app.logs[1] # "ERROR: config_load_failed"
ConfigRejected ==
    /\ app.api_endpoint = ""
    /\ << app.initial_h, app.initial_m, app.initial_s >> = << 0, 0, 0 >>
    /\ app.logs # << >> /\ app.logs[1] = "ERROR: config_load_failed"

\* C20: a readable configuration is accepted, in OnTime mode exactly when
\* h < 24, m < 60 and s < 60, in Interval mode exactly when s >= 60 comes
\* only with h = 0 and m = 0, and m >= 60 only with h = 0 and s = 0; every
\* other one is rejected and the App is built without it.
C20_ConfigValidation ==
    LET valid == IF config.on_time
                 THEN config.h < 24 /\ config.m < 60 /\ config.s < 60
                 ELSE /\ config.s >= 60 => config.h = 0 /\ config.m = 0
                      /\ config.m >= 60 => config.h = 0 /\ config.s = 0
    IN /\ ConfigAccepted = valid
       /\ ConfigRejected = ~valid

\* C20 witness: an Interval configuration of 0 h 0 min 61 s was accepted and
\* startup went on with it.
C20_Witness ==
    /\ ~config.on_time
    /\ << config.h, config.m, config.s >> = << 0, 0, 61 >>
    /\ ConfigAccepted
    /\ app.total_duration = 61
    /\ pc_main = "draw"

InvokerStep == invokers' # invokers /\ InvokerCount' <= InvokerCount

\* C22: after startup only the main loop and the ticker write the App; no
\* step of an invoker task changes it, the result of an invocation reaches
\* the App through its ApiCallCompleted event alone.
C22_InvokerNeverWritesApp == [][InvokerStep => app' = app]_vars

\* the first fire of the countdown: no trigger entry is in the log yet
FirstFireStep ==
    /\ FireStep
    /\ app.mode = "ClockMode"
    /\ \A i \in 1..Len(app.logs) : app.logs[i] # "clock_trigger"
\* a tick taken while the first invocation is pending leaves the countdown
\* untouched, at total_duration
TickWhileFirstPending ==
    TickStep /\ app.mode = "ClockMode" /\ app.is_first_api_call
        => /\ app.remaining_duration = app.total_duration
           /\ app'.remaining_duration = app.remaining_duration
           /\ ticker_pc' = "send_tick"

\* C23 as stated: the countdown stands still while the first-invocation flag
\* is true, and the first fire comes total_duration ticks after the flag
\* became false.
C23_Original ==
    /\ [][TickWhileFirstPending]_vars
    /\ [][FirstFireStep => cycle_tick' = app.total_duration]_vars

\* C23 amended: the countdown stands still while the first-invocation flag is
\* true, and the first fire comes on tick number max(1, total_duration) of
\* those taken after the flag became false (a countdown of 0 s fires on the
\* first such tick).
C23_CountdownWaitsForFirst ==
    /\ [][TickWhileFirstPending]_vars
    /\ [](app.mode = "ClockMode" /\ app.is_first_api_call
            => app.remaining_duration = app.total_duration)
    /\ [][FirstFireStep => cycle_tick' = Max(1, app.total_duration)]_vars

\* C23 witness: of four ticks of a 3 s countdown the first came while the
\* first invocation was pending; the fourth tick has fired.
C23_Witness ==
    /\ app.total_duration = 3
    /\ ticks = 4
    /\ cycle_tick = 3
    /\ ticker_pc = "send_trigger"

\* the status entries the ticker writes when it decides to fire
TriggerEntries == {"clock_trigger", "ontime_trigger"}
\* how many of the first n log entries are in the set
EntriesAmong(entries, n) ==
    Cardinality({i \in 1..n : app.logs[i] \in entries})
\* the invocations fired by the ticker, whatever stage they are in: decided
\* but not sent, triggered, running, reported, or consumed by the main loop
TickerInvocations ==
    (IF ticker_pc = "send_trigger" THEN 1 ELSE 0)
    + Cardinality({i \in 1..Len(chan) :
                      \/ chan[i].type = "ApiCallTriggered" /\ chan[i].arg = FALSE
                      \/ chan[i].type = "ApiCallCompleted" /\ chan[i].arg \in LaterOutcomes})
    + BagCardinality([inv \in {i \in BagToSet(invokers) : ~i.is_first_call}
                         |-> invokers[inv]])
    + EntriesAmong(LaterOutcomes, Len(app.logs))

\* C24: the ticker's trigger entry is in the log before the ApiCallTriggered
\* event is sent: every invocation fired by the ticker has its trigger entry,
\* and in every prefix of the log the ApiCallCompleted entries of such
\* invocations are no more than the trigger entries before them.
C24_TriggerEntryPrecedesCompletion ==
    /\ EntriesAmong(TriggerEntries, Len(app.logs)) = TickerInvocations
    /\ \A n \in 1..Len(app.logs) :
          EntriesAmong(LaterOutcomes, n) <= EntriesAmong(TriggerEntries, n)

\* C24 witness: two invocations fired by the ticker have completed and are
\* in the log.
C24_Witness ==
    /\ EntriesAmong(LaterOutcomes, Len(app.logs)) = 2
    /\ EntriesAmong(TriggerEntries, Len(app.logs)) = 2

\* OnTimeMode with the scheduler enabled
OnTimeEnabled == app.mode = "OnTimeMode" /\ SchedulerEnabled(app)

\* C25 as stated: in OnTimeMode next_trigger_time is present in every state
\* in which the scheduler is enabled.
C25_Original == OnTimeEnabled => app.next_trigger_time # -1

\* C25 amended: in OnTimeMode next_trigger_time is present in every state
\* with the scheduler enabled from the end of startup's step of lines 113-118
\* on, that is before the ticker exists, so no tick finds it absent; it is
\* set to the value set_next_trigger_time computes and to nothing else, and
\* once present it is never cleared.
C25_NextTriggerPresent ==
    /\ [](OnTimeEnabled /\ pc_main \notin {"dir_setup", "next_trigger"}
            => app.next_trigger_time # -1)
    /\ [][TickStep /\ OnTimeEnabled => app.next_trigger_time # -1]_vars
    /\ [][app'.next_trigger_time # app.next_trigger_time
            => /\ app'.next_trigger_time
                    = set_next_trigger_time(app, now').next_trigger_time
               /\ app'.next_trigger_time # -1]_vars
    /\ [][app.next_trigger_time # -1 => app'.next_trigger_time # -1]_vars

\* C25 witness: the ticker has evaluated the OnTimeMode trigger, found the
\* target still ahead and did not fire.
C25_Witness ==
    /\ OnTimeEnabled
    /\ ~app.is_first_api_call
    /\ ticks >= 1
    /\ tick_fired = FALSE
    /\ ticker_pc = "send_tick"
    /\ app.next_trigger_time > now

\* ClockMode with a countdown of 0 s
ZeroCountdown == app.mode = "ClockMode" /\ app.total_duration = 0

\* C26: with a countdown of 0 s remaining_duration is 0 in every state, and
\* every tick of an enabled scheduler whose first-invocation flag is false
\* fires.
C26_ZeroCountdownFiresEveryTick ==
    /\ [](ZeroCountdown => app.remaining_duration = 0)
    /\ [][TickStep /\ ZeroCountdown /\ SchedulerEnabled(app)
              /\ ~app.is_first_api_call
            => FireStep /\ app'.remaining_duration = 0]_vars

\* C26 witness: two ticks of a 0 s countdown were taken after the first
\* invocation and both have fired.
C26_Witness ==
    /\ ZeroCountdown
    /\ config.h = 0 /\ config.m = 0 /\ config.s = 0
    /\ ticks = 2
    /\ EntriesAmong({"clock_trigger"}, Len(app.logs)) = 2

====
